---- MODULE Spec2Model ----
(***************************************************************************)
(* The serial bridge of the centrifuge controller (serial_controller.py):  *)
(* class SerialController with its reader thread, its watchdog thread, the *)
(* caller's thread, the status record behind _status_lock and the write    *)
(* path behind _write_lock.                                                *)
(*                                                                         *)
(* A line of text is a sequence of tokens: "STATE:RUNNING" is              *)
(* <<"STATE:", "RUNNING">>, a JSON packet is <<"{", key, value, ..., "}">>.*)
(* A thread is a pair <<kind, n>>: the caller, or the reader / watchdog    *)
(* started by the n-th successful connect().                               *)
(***************************************************************************)
EXTENDS Integers, Sequences, FiniteSets, TLC

\* ------------------------------------------------------------------ bounds
\* Serial objects connect() may create in one run.
MaxConn == 2
\* I/O failures (SerialException raised by the link itself) in one run.
MaxFault == 1
\* Lines the device sends in a run that also breaks and reopens the link.
MaxLines == 2

\* ------------------------------------------------------------- data types
IDLE == "IDLE"
RAMPING_UP == "RAMPING_UP"
RUNNING == "RUNNING"
RAMPING_DOWN == "RAMPING_DOWN"
ERROR == "ERROR"
DISCONNECTED == "DISCONNECTED"

\* class SystemState(Enum): the values of the members
SystemState == {IDLE, RAMPING_UP, RUNNING, RAMPING_DOWN, ERROR, DISCONNECTED}

\* ArduinoStatus(): the dataclass defaults
ArduinoStatus ==
  [state |-> DISCONNECTED, current_rpm |-> 0, target_rpm |-> 0, pwm |-> 0,
   lid_closed |-> FALSE, level |-> FALSE, running |-> FALSE,
   remaining_ms |-> 0, error_reason |-> ""]

\* ArduinoStatus.remaining_sec
remaining_sec(s) == s.remaining_ms \div 1000

\* What a raised exception is called in the model.
ValueError == "ValueError"
JSONDecodeError == "JSONDecodeError"
SerialException == "SerialException"
None == "None"

\* ------------------------------------------------------------ JSON decoding
\* The numerals the device's packets carry, with the int each denotes.
Numerals == {"0", "850", "1000", "12000", "128"}

NumeralValue(v) ==
  CASE v = "0" -> 0
    [] v = "850" -> 850
    [] v = "1000" -> 1000
    [] v = "12000" -> 12000
    [] v = "128" -> 128

\* int(x) of a decoded JSON value: a number converts, any other text raises
\* ValueError (IntRaises), and IntOf is then not evaluated.
IntRaises(v) == v \notin Numerals

IntOf(v) == NumeralValue(v)

\* bool(x) of a decoded JSON value: false, 0 and "" are falsy.
BoolOf(v) == v \notin {"false", "0", ""}

\* An object is "{" key value ... "}".
WellFormedJson(line) ==
  /\ Len(line) >= 2
  /\ line[1] = "{"
  /\ line[Len(line)] = "}"
  /\ (Len(line) - 2) % 2 = 0
  /\ \A i \in 2..(Len(line) - 1) : line[i] \notin {"{", "}"}

JsonKeys(line) == {line[2 * i] : i \in 1..((Len(line) - 2) \div 2)}

\* The last member with key k wins, as in a Python dict.
JsonMember(line, k) ==
  LET at == {i \in 1..((Len(line) - 2) \div 2) : line[2 * i] = k}
      last == CHOOSE i \in at : \A j \in at : j <= i
  IN line[2 * last + 1]

\* A decoder that accepts any text as an empty object.
json_loads_any(line) == [raised |-> None, data |-> [k \in {} |-> ""]]

\* json.loads(line): the dict, or the exception raised (data is then empty).
json_loads(line) ==
  IF WellFormedJson(line)
  THEN [raised |-> None, data |-> [k \in JsonKeys(line) |-> JsonMember(line, k)]]
  ELSE [raised |-> JSONDecodeError, data |-> [k \in {} |-> ""]]

\* A lookup that yields an empty text for a missing key.
DictGetOrBlank(data, key, default) == IF key \in DOMAIN data THEN data[key] ELSE ""

\* data.get(key, default)
DictGet(data, key, default) == IF key \in DOMAIN data THEN data[key] ELSE default

\* A lookup that takes a name it does not know for IDLE.
SystemStateOrIdle(text) == IF text \in SystemState THEN text ELSE IDLE

\* SystemState(text): the member with that value, or ValueError
SystemStateOf(text) == IF text \in SystemState THEN text ELSE ValueError


\* The fields _parse_status_json assigns after the state, in source order:
\* the field, its key, the conversion and the default of data.get().
StatusFields ==
  << [field |-> "current_rpm", key |-> "currentRPM", conv |-> "int", default |-> "0"],
     [field |-> "target_rpm", key |-> "targetRPM", conv |-> "int", default |-> "0"],
     [field |-> "pwm", key |-> "pwm", conv |-> "int", default |-> "0"],
     [field |-> "lid_closed", key |-> "lidClosed", conv |-> "bool", default |-> "false"],
     [field |-> "level", key |-> "level", conv |-> "bool", default |-> "false"],
     [field |-> "running", key |-> "running", conv |-> "bool", default |-> "false"],
     [field |-> "remaining_ms", key |-> "remainingMs", conv |-> "int", default |-> "0"] >>

\* self._status.state = SystemState(data.get("state", "IDLE")), IDLE on ValueError
JsonStateOf(data) ==
  LET text == DictGet(data, "state", IDLE)
  IN IF SystemStateOf(text) = ValueError THEN IDLE ELSE SystemStateOf(text)

\* The assignments from the i-th field on, stopping at the first one that raises:
\* the record as far as it was written, and the exception (None when all ran).
RECURSIVE AssignFields(_, _, _)
AssignFields(s, data, i) ==
  IF i > Len(StatusFields) THEN [status |-> s, raised |-> None]
  ELSE LET f == StatusFields[i]
           v == DictGet(data, f.key, f.default)
       IN IF f.conv = "bool"
          THEN AssignFields([s EXCEPT ![f.field] = BoolOf(v)], data, i + 1)
          ELSE IF IntRaises(v)
               THEN [status |-> s, raised |-> ValueError]
               ELSE AssignFields([s EXCEPT ![f.field] = IntOf(v)], data, i + 1)

\* ------------------------------------------------------------ line decoding
Whitespace == {" ", "\r", "\n"}

\* str.strip()
RECURSIVE Strip(_)
Strip(text) ==
  IF text = <<>> THEN text
  ELSE IF Head(text) \in Whitespace THEN Strip(Tail(text))
  ELSE IF text[Len(text)] \in Whitespace THEN Strip(SubSeq(text, 1, Len(text) - 1))
  ELSE text

\* line.startswith(prefix), the prefix being one token
StartsWith(line, prefix) == Len(line) >= 1 /\ line[1] = prefix

\* A slice that keeps the prefix.
FromStart(line) == line[1]

\* line[len(prefix):]: what follows the prefix (at most one token in this model)
Rest(line) == IF Len(line) >= 2 THEN line[2] ELSE ""

\* A dispatch that takes every line for an error report.
ParseAsError(line) == "error"

\* The branch of _parse_line a line takes: the first rule that matches.
ParseRule(line) ==
  CASE StartsWith(line, "{") -> "json"
    [] StartsWith(line, "ERROR:") -> "error"
    [] StartsWith(line, "STATE:") -> "state"
    [] StartsWith(line, "STATUS:COMPLETE") -> "complete"
    [] StartsWith(line, "WARNING:") -> "warning"
    [] line = <<"PONG">> -> "pong"
    [] StartsWith(line, "ACK:") -> "ack"
    [] StartsWith(line, "Centrifuge Control") \/ line = <<"System Ready">> -> "boot"
    [] OTHER -> "unhandled"

\* ---------------------------------------------------- what the device sends
StatusPacket ==
  <<"{", "state", "RUNNING", "currentRPM", "850", "targetRPM", "1000",
    "lidClosed", "true", "level", "true", "running", "true",
    "remainingMs", "12000", "}", "\n">>
EmptyPacket == <<"{", "}", "\n">>
UnknownStatePacket == <<"{", "state", "BOOTING", "pwm", "128", "}", "\n">>
BadNumberPacket == <<"{", "state", "RUNNING", "currentRPM", "abc", "}", "\n">>
TruncatedPacket == <<"{", "state", "RUNNING", "currentRPM", "\n">>
ErrorLine == <<"ERROR:", "LID_OPEN", "\r", "\n">>
StateRunning == <<"STATE:", "RUNNING", "\n">>
StateIdle == <<"STATE:", "IDLE", "\n">>
StateRampingDown == <<"STATE:", "RAMPING_DOWN", "\n">>
StateBooting == <<"STATE:", "BOOTING", "\n">>
StateDisconnected == <<"STATE:", "DISCONNECTED", "\n">>
CompleteLine == <<"STATUS:COMPLETE", "\n">>
WarningLine == <<"WARNING:", "IMBALANCE", "\n">>
PongLine == <<"PONG", "\n">>
AckLine == <<"ACK:", "START", "\n">>
BootLine == <<"System Ready", "\n">>
OtherLine == <<"hello", "\n">>
BlankLine == <<"\r", "\n">>

\* Every line the model's device can send.
AllLines ==
  {StatusPacket, EmptyPacket, UnknownStatePacket, BadNumberPacket, TruncatedPacket,
   ErrorLine, StateRunning, StateIdle, StateRampingDown, StateBooting,
   StateDisconnected, CompleteLine, WarningLine, PongLine, AckLine, BootLine,
   OtherLine, BlankLine}

\* The lines sent in the runs that also break and reopen the link.
LinkLines == {StatusPacket, TruncatedPacket, ErrorLine, StateIdle}


\* ------------------------------------------------------------ port discovery
\* A text of a port's description is a sequence of words; str.lower() maps each.
LowerWord(w) ==
  CASE w = "Arduino" -> "arduino"
    [] w = "USB" -> "usb"
    [] w = "Serial" -> "serial"
    [] w = "CH340" -> "ch340"
    [] w = "FTDI" -> "ftdi"
    [] OTHER -> w

\* A text taken as it is written.
AsWritten(text) == text

Lower(text) == [i \in 1..Len(text) |-> LowerWord(text[i])]

\* kw in text: kw occurs as a contiguous run of text
Contains(text, kw) ==
  \E i \in 0..(Len(text) - Len(kw)) : \A j \in 1..Len(kw) : text[i + j] = kw[j]

keywords ==
  << <<"arduino">>, <<"usb", " ", "serial">>, <<"ch340">>, <<"cp210">>, <<"ftdi">>,
     <<"usbmodem">>, <<"usbserial">> >>

PortMatches(p) ==
  \E k \in 1..Len(keywords) :
     \/ Contains(Lower(p.description), keywords[k])
     \/ Contains(Lower(p.manufacturer), keywords[k])
     \/ Contains(Lower(p.hwid), keywords[k])

\* _auto_detect_port(): the first port that matches, else the first port, else None
auto_detect_port(ports) ==
  LET hits == {i \in 1..Len(ports) : PortMatches(ports[i])}
  IN IF hits # {} THEN ports[CHOOSE i \in hits : \A j \in hits : i <= j].device
     ELSE IF Len(ports) > 0 THEN ports[1].device
     ELSE None

BluetoothPort ==
  [device |-> "COM1", description |-> <<"Bluetooth", " ", "link">>,
   manufacturer |-> <<>>, hwid |-> <<"BTHENUM">>]
ArduinoPort ==
  [device |-> "COM3", description |-> <<"Arduino", " ", "Uno">>,
   manufacturer |-> <<"Arduino", " ", "LLC">>, hwid |-> <<"USB", " ", "VID:PID=2341:0043">>]
ClonePort ==
  [device |-> "COM4", description |-> <<"USB-SERIAL", " ", "CH340">>,
   manufacturer |-> <<"wch.cn">>, hwid |-> <<"USB", " ", "VID:PID=1A86:7523">>]

FtdiPort ==
  [device |-> "COM7", description |-> <<"Serial", " ", "Port">>,
   manufacturer |-> <<"FTDI">>, hwid |-> <<>>]
AdapterPort ==
  [device |-> "COM8", description |-> <<"Adapter">>,
   manufacturer |-> <<>>, hwid |-> <<"USB", " ", "Serial", " ", "0403:6001">>]

\* What serial.tools.list_ports.comports() may answer.
PortLists ==
  { <<>>, <<BluetoothPort>>, <<BluetoothPort, ArduinoPort>>,
    <<BluetoothPort, ClonePort, ArduinoPort>>, <<FtdiPort, ArduinoPort>>,
    <<BluetoothPort, AdapterPort>> }

\* ------------------------------------------------------------------ threads
Caller == <<"caller", 0>>
Reader(n) == <<"reader", n>>
Watchdog(n) == <<"watchdog", n>>
NoThread == <<"none", 0>>

Conns == 1..MaxConn
Readers == {Reader(n) : n \in Conns}
Watchdogs == {Watchdog(n) : n \in Conns}
Threads == {Caller} \cup Readers \cup Watchdogs
Senders == {Caller} \cup Watchdogs

VARIABLES
  port,            \* self.port
  serial,          \* self._serial: 0 for None, else the n-th Serial object created
  is_open,         \* Serial.is_open of each object
  status,          \* self._status
  status_lock,     \* the thread holding self._status_lock
  write_lock,      \* the thread holding self._write_lock
  stop_event,      \* self._stop_event
  previous_state,  \* self._previous_state
  started,         \* thread pairs started; _reader_thread is Reader(started)
  pc,              \* where each thread is
  line,            \* _reader_loop: the line in hand
  current,         \* _check_state_change: the local current
  failed,          \* the link whose SerialException a thread is handling
  command,         \* _send: the caller's command
  ret,             \* what the caller's last call returned
  snap,            \* the caller's last get_status() snapshot
  in_row,          \* disconnect() calls completed in a row (counted to 2)
  wire,            \* the link being written to and the text put on it so far
  line_events,     \* the callbacks a reader fired for its line in hand
  disc_events,     \* on_error("SERIAL_DISCONNECTED") calls, by failed link (to 2)
  env              \* the device and the OS: the lines the device sends and how
                   \* many are left (below 0: no limit), the failures left, the
                   \* Serial objects there may be, the port lists, the commands

vars ==
  <<port, serial, is_open, status, status_lock, write_lock, stop_event,
    previous_state, started, pc, line, current, failed, command, ret, snap,
    in_row, wire, line_events, disc_events, env>>

\* is_connected()
is_connected == serial # 0 /\ is_open[serial]

\* An event nobody ever sees set.
never_set(event) == FALSE

\* threading.Event.is_set()
is_set(event) == event

\* A with block that keeps its lock on the way out.
StillHeld(t) == t

\* Leaving a with block of a threading.Lock: the lock is free again
Released(t) == NoThread

\* threading.Thread.is_alive()
is_alive(t) == pc[t] \notin {"unstarted", "done"}

\* The ArduinoStatus objects: the one self._status names, and the one a caller
\* was handed. A snapshot is the object returned, the fields it was built with,
\* and whether the caller has assigned to it since.
StoreObject == "self._status"
NewObject == "ArduinoStatus(...)"

NoSnapshot == [taken |-> FALSE, object |-> None, value |-> ArduinoStatus, written |-> FALSE]

\* What the holder of a snapshot reads in it: the fields of the object it names.
Seen(s, store) == IF s.object = StoreObject THEN store ELSE s.value
NoWire == [link |-> 0, data |-> <<>>]
NoCommand == [verb |-> "", args |-> <<>>]
Newline == [verb |-> "\n", args |-> <<>>]

\* The arguments of a callback invocation, absent ones blank.
Event(kind, old, new, reason, st) ==
  [kind |-> kind, old |-> old, new |-> new, reason |-> reason, status |-> st]
\* An on_status_update that is handed the record of construction time.
StaleUpdateEvent(st) == Event("on_status_update", "", "", "", ArduinoStatus)

StatusUpdateEvent(st) == Event("on_status_update", "", "", "", st)
StateChangeEvent(old, new) == Event("on_state_change", old, new, "", ArduinoStatus)
ErrorEvent(reason) == Event("on_error", "", "", reason, ArduinoStatus)
CompleteEvent == Event("on_complete", "", "", "", ArduinoStatus)

\* The observers passed to __init__: whether the callbacks raise an Exception when
\* called, and whether the callable has a __name__ (a function, a method or a
\* lambda has one; a functools.partial object has none).
Callables == [raises : BOOLEAN, named : BOOLEAN]
WellBehaved == [raises |-> FALSE, named |-> TRUE]

AttributeError == "AttributeError"

\* _fire_callback(cb, *args): the exception that leaves it, None when none does.
\* try: cb(*args); except Exception as e: log.warning(f"... {cb.__name__} ...")
fire_callback(cb) == IF cb.raises /\ ~cb.named THEN AttributeError ELSE None

\* What leaves _fire_callback with the observers of this run.
Escaped == fire_callback(env.observer)

\* SerialController.__init__
InitController ==
  /\ port = None
  /\ serial = 0
  /\ is_open = [n \in Conns |-> FALSE]
  /\ status = ArduinoStatus
  /\ status_lock = NoThread
  /\ write_lock = NoThread
  /\ stop_event = FALSE
  /\ previous_state = DISCONNECTED
  /\ started = 0
  /\ pc = [t \in Threads |-> IF t = Caller THEN "idle" ELSE "unstarted"]
  /\ line = [t \in Readers |-> <<>>]
  /\ current = [t \in Readers |-> None]
  /\ failed = [t \in Threads |-> 0]
  /\ command = NoCommand
  /\ ret = None
  /\ snap = NoSnapshot
  /\ in_row = 0
  /\ wire = NoWire
  /\ line_events = [t \in Readers |-> <<>>]
  /\ disc_events = [n \in Conns |-> 0]

\* stop, emergency_stop, clear_error, request_status, ping
PlainCommands ==
  {[verb |-> v, args |-> <<>>] :
     v \in {"STOP", "EMERGENCY_STOP", "CLEAR_ERROR", "STATUS", "PING"}}

Stop == [verb |-> "STOP", args |-> <<>>]
ClearError == [verb |-> "CLEAR_ERROR", args |-> <<>>]

\* One connection, with a device that sends a few lines, a link that can fail,
\* and a caller that connects, sends and disconnects.
Init ==
  /\ InitController
  /\ env = [lines |-> LinkLines, reads |-> MaxLines, faults |-> MaxFault, conns |-> 1,
            ports |-> {<<>>, <<BluetoothPort, ArduinoPort>>}, commands |-> {Stop},
            observer |-> WellBehaved]

\* The same, with observers that raise when they are called.
ObserverInit ==
  /\ InitController
  /\ \E cb \in {c \in Callables : c.raises} :
       env = [lines |-> LinkLines, reads |-> MaxLines, faults |-> MaxFault, conns |-> 1,
              ports |-> {<<>>, <<BluetoothPort, ArduinoPort>>}, commands |-> {Stop},
              observer |-> cb]

\* The link opened up to MaxConn times, the device silent.
ReconnectInit ==
  /\ InitController
  /\ env = [lines |-> {}, reads |-> 0, faults |-> MaxFault, conns |-> MaxConn,
            ports |-> {<<BluetoothPort, ArduinoPort>>}, commands |-> {Stop},
            observer |-> WellBehaved]

\* One connection that stays up, the device sending every line of AllLines.
ParserInit ==
  /\ InitController
  /\ env = [lines |-> AllLines, reads |-> -1, faults |-> 0, conns |-> 1,
            ports |-> {<<BluetoothPort, ClonePort, ArduinoPort>>},
            commands |-> {ClearError}, observer |-> WellBehaved]

\* One connection that stays up, the device sending a packet, an error and a state.
SnapshotInit ==
  /\ InitController
  /\ env = [lines |-> {StatusPacket, ErrorLine, StateIdle}, reads |-> -1, faults |-> 0,
            conns |-> 1, ports |-> {<<BluetoothPort, ArduinoPort>>},
            commands |-> {Stop}, observer |-> WellBehaved]

\* One connection on a link that does not fail, on a machine with one of the port
\* lists, the device silent, the caller calling every command method.
CommandInit ==
  /\ InitController
  /\ \E ports \in PortLists :
       env = [lines |-> {}, reads |-> 0, faults |-> 0, conns |-> 1,
              ports |-> {ports}, commands |-> PlainCommands,
              observer |-> WellBehaved]

\* ------------------------------------------------------------------ helpers
linkVars == <<port, serial, is_open>>
callerVars == <<command, ret, snap, in_row>>
readerVars == <<line, current, line_events>>

Goto(t, p) == pc' = [pc EXCEPT ![t] = p]

\* A thread catches SerialException from the link and calls _handle_disconnect().
Raise(t, link) ==
  /\ pc' = [pc EXCEPT ![t] = "hd_state"]
  /\ failed' = [failed EXCEPT ![t] = link]

\* A close() that leaves the link open.
LeftOpen(open, link) == open

\* serial.Serial.close()
Closed(open, link) == [open EXCEPT ![link] = FALSE]

\* A reader that goes round its loop again after _handle_disconnect().
ReturnedIntoLoop(t, value) ==
  IF t = Caller
  THEN /\ Goto(t, "idle")
       /\ ret' = value
       /\ UNCHANGED <<command, snap, in_row>>
  ELSE /\ Goto(t, IF t \in Readers THEN "r_loop" ELSE "w_loop")
       /\ UNCHANGED callerVars

\* What a thread does once _handle_disconnect() or _send() has returned a value:
\* the reader breaks out of its loop, the watchdog loops, the caller has its result.
Returned(t, value) ==
  IF t = Caller
  THEN /\ Goto(t, "idle")
       /\ ret' = value
       /\ UNCHANGED <<command, snap, in_row>>
  ELSE /\ Goto(t, IF t \in Readers THEN "done" ELSE "w_loop")
       /\ UNCHANGED callerVars

\* An exception that leaves _handle_disconnect() inside an except clause of
\* _send() or _reader_loop(): the caller has it instead of a result, a reader
\* or a watchdog thread ends with it.
Propagated(t, exc) ==
  IF t = Caller
  THEN /\ Goto(t, "idle")
       /\ ret' = exc
       /\ UNCHANGED <<command, snap, in_row>>
  ELSE /\ Goto(t, "done")
       /\ UNCHANGED callerVars

\* What the link hands a blocking call: the call goes through, or it raises
\* SerialException while failures are left.
LinkOutcomes == {"ok"} \cup (IF env.faults > 0 THEN {SerialException} ELSE {})

Faulted(outcome) ==
  IF outcome = SerialException THEN [env EXCEPT !.faults = @ - 1] ELSE env

\* ------------------------------------------------------------ _reader_loop
\* while not self._stop_event.is_set():
ReaderLoop(t) ==
  /\ pc[t] = "r_loop"
  /\ Goto(t, IF is_set(stop_event) THEN "done" ELSE "r_read")
  /\ line' = [line EXCEPT ![t] = <<>>]
  /\ line_events' = [line_events EXCEPT ![t] = <<>>]
  /\ UNCHANGED <<linkVars, status, status_lock, write_lock, stop_event, previous_state,
                 started, current, failed, callerVars, wire, disc_events, env>>

\* self._serial.readline(): b"" on timeout, a line, or SerialException.
ReadResults ==
  {[kind |-> "timeout", raw |-> <<>>]}
    \cup {[kind |-> "line", raw |-> l] : l \in (IF env.reads # 0 THEN env.lines ELSE {})}
    \cup {[kind |-> o, raw |-> <<>>] : o \in LinkOutcomes \ {"ok"}}

\* The device and the link after a read.
AfterResult(kind) ==
  IF kind = "line" /\ env.reads > 0 THEN [env EXCEPT !.reads = @ - 1] ELSE Faulted(kind)

\* A parser that treats a line of the device as the loss of the link.
AfterReadGivingUp(text) == "hd_state"

\* Where _parse_line takes the reader for a stripped line: the rules that touch
\* nothing shared (decode failures, informational lines) lead back to the loop.
AfterRead(text) ==
  IF text = <<>> THEN "r_loop"
  ELSE CASE ParseRule(text) = "json" ->
              IF json_loads(text).raised = None THEN "json_state" ELSE "r_loop"
         [] ParseRule(text) = "error" -> "err_set"
         [] ParseRule(text) = "state" ->
              IF SystemStateOf(Rest(text)) = ValueError THEN "r_loop" ELSE "state_set"
         [] OTHER -> "r_loop"

\* A parser that fires no callback of its own.
FiredNothing(text) == <<>>

\* The callbacks _parse_line fires at once for a line.
FiredOnRead(text) ==
  IF text # <<>> /\ ParseRule(text) = "complete" THEN <<CompleteEvent>> ELSE <<>>

ReaderRead(t) ==
  /\ pc[t] = "r_read"
  /\ IF ~is_open[serial]
     THEN /\ Raise(t, serial)
          /\ line' = [line EXCEPT ![t] = <<>>]
          /\ line_events' = [line_events EXCEPT ![t] = <<>>]
          /\ env' = env
     ELSE \E r \in ReadResults :
            LET text == Strip(r.raw)
            IN /\ line' = [line EXCEPT ![t] = text]
               /\ env' = AfterResult(r.kind)
               /\ IF r.kind = SerialException
                  THEN /\ Raise(t, serial)
                       /\ line_events' = [line_events EXCEPT ![t] = <<>>]
                  ELSE /\ Goto(t, AfterRead(text))
                       /\ line_events' = [line_events EXCEPT ![t] = FiredOnRead(text)]
                       /\ failed' = failed
  /\ UNCHANGED <<linkVars, status, status_lock, write_lock, stop_event, previous_state,
                 started, current, callerVars, wire, disc_events>>

\* _parse_status_json: with self._status_lock: self._status.state = ...
JsonState(t) ==
  /\ pc[t] = "json_state"
  /\ status_lock = NoThread
  /\ status_lock' = t
  /\ status' = [status EXCEPT !.state = JsonStateOf(json_loads(line[t]).data)]
  /\ Goto(t, "json_fields")
  /\ UNCHANGED <<linkVars, write_lock, stop_event, previous_state, started, readerVars,
                 failed, callerVars, wire, disc_events, env>>

\* ... the other fields, and the lock released; a ValueError of int() leaves the
\* with block and _parse_line, and _reader_loop's except Exception logs it.
JsonFields(t) ==
  /\ pc[t] = "json_fields"
  /\ status_lock = t
  /\ LET done == AssignFields(status, json_loads(line[t]).data, 1)
     IN /\ status' = done.status
        /\ Goto(t, IF done.raised = None THEN "fire_status" ELSE "r_loop")
  /\ status_lock' = Released(t)
  /\ UNCHANGED <<linkVars, write_lock, stop_event, previous_state, started, readerVars,
                 failed, callerVars, wire, disc_events, env>>

\* self._fire_callback(self.on_status_update, self.get_status())
FireStatus(t) ==
  /\ pc[t] = "fire_status"
  /\ status_lock = NoThread
  /\ line_events' = [line_events EXCEPT ![t] = Append(@, StatusUpdateEvent(status))]
  /\ Goto(t, IF Escaped = None THEN "check" ELSE "r_loop")
  /\ UNCHANGED <<linkVars, status, status_lock, write_lock, stop_event, previous_state,
                 started, line, current, failed, callerVars, wire, disc_events, env>>

\* ERROR:<reason>: with self._status_lock: state = ERROR; error_reason = reason
ErrorSet(t) ==
  /\ pc[t] = "err_set"
  /\ status_lock = NoThread
  /\ status' = [status EXCEPT !.state = ERROR, !.error_reason = Rest(line[t])]
  /\ Goto(t, "err_fire")
  /\ UNCHANGED <<linkVars, status_lock, write_lock, stop_event, previous_state, started,
                 readerVars, failed, callerVars, wire, disc_events, env>>

\* self._fire_callback(self.on_error, reason)
ErrorFire(t) ==
  /\ pc[t] = "err_fire"
  /\ line_events' = [line_events EXCEPT ![t] = Append(@, ErrorEvent(Rest(line[t])))]
  /\ Goto(t, IF Escaped = None THEN "check" ELSE "r_loop")
  /\ UNCHANGED <<linkVars, status, status_lock, write_lock, stop_event, previous_state,
                 started, line, current, failed, callerVars, wire, disc_events, env>>

\* STATE:<name>, name a SystemState: with self._status_lock: state = new_state
StateSet(t) ==
  /\ pc[t] = "state_set"
  /\ status_lock = NoThread
  /\ status' = [status EXCEPT !.state = SystemStateOf(Rest(line[t]))]
  /\ Goto(t, "check")
  /\ UNCHANGED <<linkVars, status_lock, write_lock, stop_event, previous_state, started,
                 readerVars, failed, callerVars, wire, disc_events, env>>

\* _check_state_change: with self._status_lock: current = self._status.state
CheckRead(t) ==
  /\ pc[t] = "check"
  /\ status_lock = NoThread
  /\ current' = [current EXCEPT ![t] = status.state]
  /\ Goto(t, "compare")
  /\ UNCHANGED <<linkVars, status, status_lock, write_lock, stop_event, previous_state,
                 started, line, line_events, failed, callerVars, wire, disc_events, env>>

\* if current != self._previous_state: fire on_state_change, then remember current
\* (an exception leaving _fire_callback skips the assignment)
StateChanged(cur, prev) == cur # prev

CheckCompare(t) ==
  /\ pc[t] = "compare"
  /\ IF StateChanged(current[t], previous_state)
     THEN /\ line_events' = [line_events EXCEPT
                               ![t] = Append(@, StateChangeEvent(previous_state, current[t]))]
          /\ previous_state' = IF Escaped = None THEN current[t] ELSE previous_state
     ELSE UNCHANGED <<line_events, previous_state>>
  /\ current' = [current EXCEPT ![t] = None]
  /\ Goto(t, "r_loop")
  /\ UNCHANGED <<linkVars, status, status_lock, write_lock, stop_event, started, line,
                 failed, callerVars, wire, disc_events, env>>

\* ------------------------------------------------------ _handle_disconnect
\* The status left as it is.
NotMarked(s) == s

\* self._status.state = SystemState.DISCONNECTED, the other fields as they are
MarkedDisconnected(s) == [s EXCEPT !.state = DISCONNECTED]

\* with self._status_lock: self._status.state = DISCONNECTED
HandleDisconnectState(t) ==
  /\ pc[t] = "hd_state"
  /\ status_lock = NoThread
  /\ status' = MarkedDisconnected(status)
  /\ Goto(t, "hd_close")
  /\ UNCHANGED <<linkVars, status_lock, write_lock, stop_event, previous_state, started,
                 readerVars, failed, callerVars, wire, disc_events, env>>

\* A handler that tells nobody.
NoEvents == <<>>

\* The callbacks one call of _handle_disconnect fires.
DisconnectEvents == <<ErrorEvent("SERIAL_DISCONNECTED")>>

\* if self._serial: close it; then on_error("SERIAL_DISCONNECTED"), and return:
\* a reader leaves its loop (it keeps the link it failed on), a sender has False,
\* unless an exception leaves _fire_callback.
HandleDisconnectClose(t) ==
  /\ pc[t] = "hd_close"
  /\ is_open' = IF serial # 0 THEN Closed(is_open, serial) ELSE is_open
  /\ disc_events' = [disc_events EXCEPT
                       ![failed[t]] = IF @ + Len(DisconnectEvents) < 2
                                      THEN @ + Len(DisconnectEvents) ELSE 2]
  /\ IF t \in Readers
     THEN /\ line_events' = [line_events EXCEPT ![t] = @ \o DisconnectEvents]
          /\ failed' = failed
     ELSE /\ line_events' = line_events
          /\ failed' = [failed EXCEPT ![t] = 0]
  /\ IF Escaped = None THEN Returned(t, "False") ELSE Propagated(t, Escaped)
  /\ UNCHANGED <<port, serial, status, status_lock, write_lock, stop_event,
                 previous_state, started, line, current, wire, env>>

\* ----------------------------------------------------------- _watchdog_loop
\* while not self._stop_event.is_set(): time.sleep(WATCHDOG_INTERVAL)
WatchdogLoop(t) ==
  /\ pc[t] = "w_loop"
  /\ Goto(t, IF is_set(stop_event) THEN "done" ELSE "w_check")
  /\ UNCHANGED <<linkVars, status, status_lock, write_lock, stop_event, previous_state,
                 started, readerVars, failed, callerVars, wire, disc_events, env>>

\* A watchdog that pings whatever it finds.
AlwaysPings == TRUE

\* if self.is_connected() and not self._stop_event.is_set(): self.ping(), whose
\* _send asks is_connected() once more before it writes. (The reads are taken at
\* one instant: the turn writes only if all of them allowed it.)
WatchdogPings == is_connected /\ ~is_set(stop_event)

WatchdogCheck(t) ==
  /\ pc[t] = "w_check"
  /\ Goto(t, IF WatchdogPings THEN "s_write" ELSE "w_loop")
  /\ UNCHANGED <<linkVars, status, status_lock, write_lock, stop_event, previous_state,
                 started, readerVars, failed, callerVars, wire, disc_events, env>>

\* -------------------------------------------------------------------- _send
Ping == [verb |-> "PING", args |-> <<>>]

\* The command a sender is writing.
CommandOf(t) == IF t = Caller THEN command ELSE Ping

\* A write that raises on a failing link only, not on a closed one.
WriteRaisesOnFault(open, outcome) == outcome = SerialException

\* serial.Serial.write(): a closed port raises (PortNotOpenError) and takes nothing.
WriteRaises(open, outcome) == ~open \/ outcome = SerialException

\* The text on the link once a sender has put a chunk on it.
Written(w, link, chunk) == [link |-> link, data |-> Append(w.data, chunk)]

\* A whole line is on the link: the record starts again.
LineDone(w) == w.data # <<>> /\ w.data[Len(w.data)] = Newline

\* A lock that anybody may take at any time.
NeverHeld(lock) == TRUE

\* threading.Lock: the with statement goes on when no thread holds the lock
Unlocked(lock) == lock = NoThread

\* with self._write_lock: self._serial.write(command.encode("utf-8")): the text
SendWrite(t) ==
  /\ pc[t] = "s_write"
  /\ Unlocked(write_lock)
  /\ \E outcome \in (IF is_open[serial] THEN LinkOutcomes ELSE {"ok"}) :
       /\ env' = Faulted(outcome)
       /\ IF WriteRaises(is_open[serial], outcome)
          THEN /\ Raise(t, serial)
               /\ UNCHANGED <<write_lock, wire>>
          ELSE /\ write_lock' = t
               /\ wire' = Written(wire, serial, CommandOf(t))
               /\ Goto(t, "s_newline")
               /\ failed' = failed
  /\ UNCHANGED <<linkVars, status, status_lock, stop_event, previous_state, started,
                 readerVars, callerVars, disc_events>>

\* ... its newline, the lock released, and return True
SendNewline(t) ==
  /\ pc[t] = "s_newline"
  /\ write_lock = t
  /\ LineDone(Written(wire, wire.link, Newline))
  /\ wire' = NoWire
  /\ write_lock' = Released(t)
  /\ Returned(t, "True")
  /\ UNCHANGED <<linkVars, status, status_lock, stop_event, previous_state, started,
                 readerVars, failed, disc_events, env>>

\* ------------------------------------------------------- the caller's calls
\* A duration passed on in seconds.
duration_unscaled(duration_sec) == duration_sec

\* duration_ms = duration_sec * 1000
duration_ms(duration_sec) == duration_sec * 1000

StartCommand(rpm, duration_sec) ==
  [verb |-> "START", args |-> <<rpm, duration_ms(duration_sec)>>]

Digits == <<"0", "1", "2", "3", "4", "5", "6", "7", "8", "9">>

\* f"{n}" of an int that is not negative: its decimal digits
RECURSIVE str(_)
str(n) == IF n < 10 THEN <<Digits[n + 1]>> ELSE str(n \div 10) \o <<Digits[(n % 10) + 1]>>

\* The text of a chunk a sender writes: f"START:{rpm}:{duration_ms}", the verb of
\* the other commands, the newline.
TextOf(c) ==
  IF c.verb = "START"
  THEN <<"START:">> \o str(c.args[1]) \o <<":">> \o str(c.args[2])
  ELSE <<c.verb>>

\* The text the chunks on the link make.
RECURSIVE Encoded(_)
Encoded(chunks) ==
  IF chunks = <<>> THEN <<>> ELSE TextOf(Head(chunks)) \o Encoded(Tail(chunks))

\* A call begins: the results of the last one are dropped.
Calling == pc[Caller] = "idle"

\* A command method up to the write. _send: if not self.is_connected(): return
\* False (start() asks the same before it calls _send).
CallSend(c) ==
  /\ Calling
  /\ IF is_connected
     THEN /\ Goto(Caller, "s_write")
          /\ ret' = None
     ELSE /\ pc' = pc
          /\ ret' = "False"
  /\ command' = c
  /\ snap' = NoSnapshot
  /\ in_row' = 0
  /\ UNCHANGED <<linkVars, status, status_lock, write_lock, stop_event, previous_state,
                 started, readerVars, failed, wire, disc_events, env>>

\* start(rpm, duration_sec)
CallStart(rpm, duration_sec) == CallSend(StartCommand(rpm, duration_sec))

\* A get_status() that hands out the record itself.
ReturnedLive(s) == s

\* return ArduinoStatus(state=s.state, ...): a new object
ReturnedCopy(s) == NewObject

\* get_status(): with self._status_lock: a copy of every field
GetStatus ==
  /\ Calling
  /\ status_lock = NoThread
  /\ snap' = [taken |-> TRUE, object |-> ReturnedCopy(StoreObject), value |-> status,
              written |-> FALSE]
  /\ ret' = None
  /\ command' = NoCommand
  /\ in_row' = 0
  /\ UNCHANGED <<linkVars, status, status_lock, write_lock, stop_event, previous_state,
                 started, pc, readerVars, failed, wire, disc_events, env>>

\* The value a caller writes into a snapshot it holds: no rpm the device reports.
WrittenRpm == 128

\* The caller assigns to a field of the object get_status() gave it (one
\* assignment for a snapshot): snapshot.current_rpm = WrittenRpm
WriteSnapshot ==
  /\ Calling
  /\ snap.taken
  /\ ~snap.written
  /\ IF snap.object = StoreObject
     THEN /\ status' = [status EXCEPT !.current_rpm = WrittenRpm]
          /\ snap' = [snap EXCEPT !.written = TRUE]
     ELSE /\ status' = status
          /\ snap' = [snap EXCEPT !.value.current_rpm = WrittenRpm, !.written = TRUE]
  /\ UNCHANGED <<linkVars, status_lock, write_lock, stop_event, previous_state, started,
                 pc, readerVars, failed, command, ret, in_row, wire, disc_events, env>>

\* ------------------------------------------------------------------ connect
auto_detect == TRUE

\* connect(), to self._serial = serial.Serial(...): no port found and a failed
\* open return False; an opened port is self._serial from here on.
ConnectOpen ==
  /\ Calling
  /\ serial < env.conns
  /\ \E ports \in env.ports, outcome \in LinkOutcomes :
       LET found == IF port = None /\ auto_detect THEN auto_detect_port(ports) ELSE port
       IN /\ port' = found
          /\ IF found = None \/ outcome = SerialException
             THEN /\ env' = IF found = None THEN env ELSE Faulted(outcome)
                  /\ ret' = "False"
                  /\ UNCHANGED <<serial, is_open, pc>>
             ELSE /\ env' = env
                  /\ ret' = None
                  /\ serial' = serial + 1
                  /\ is_open' = [is_open EXCEPT ![serial + 1] = TRUE]
                  /\ Goto(Caller, "c_flush")
  /\ command' = NoCommand
  /\ snap' = NoSnapshot
  /\ in_row' = 0
  /\ UNCHANGED <<status, status_lock, write_lock, stop_event, previous_state, started,
                 readerVars, failed, wire, disc_events>>

\* self._start_threads(): both threads created and started
StartThreads(p, n) ==
  [p EXCEPT ![Reader(n)] = "r_loop", ![Watchdog(n)] = "w_loop"]

\* time.sleep(2.0); self._serial.reset_input_buffer(): SerialException returns
\* False. Else self._stop_event.clear(); self._start_threads(); return True
ConnectFlush ==
  /\ pc[Caller] = "c_flush"
  /\ \E outcome \in (IF is_open[serial] THEN LinkOutcomes ELSE {SerialException}) :
       /\ env' = IF is_open[serial] THEN Faulted(outcome) ELSE env
       /\ IF outcome = SerialException
          THEN /\ Returned(Caller, "False")
               /\ UNCHANGED <<stop_event, started>>
          ELSE /\ stop_event' = FALSE
               /\ started' = started + 1
               /\ pc' = [StartThreads(pc, started + 1) EXCEPT ![Caller] = "idle"]
               /\ ret' = "True"
               /\ UNCHANGED <<command, snap, in_row>>
  /\ UNCHANGED <<linkVars, status, status_lock, write_lock, previous_state,
                 readerVars, failed, wire, disc_events>>

\* --------------------------------------------------------------- disconnect
\* self._stop_event.set()
DisconnectSet ==
  /\ Calling
  /\ stop_event' = TRUE
  /\ Goto(Caller, "d_join")
  /\ ret' = None
  /\ command' = NoCommand
  /\ snap' = NoSnapshot
  /\ UNCHANGED <<linkVars, status, status_lock, write_lock, previous_state, started,
                 readerVars, failed, in_row, wire, disc_events, env>>

\* thread.join(timeout=3.0) returns when the thread has ended or the time is up.
JoinReturns(t, timed_out) == ~is_alive(t) \/ timed_out

\* for thread in (self._reader_thread, self._watchdog_thread): join it if alive;
\* then if self._serial and self._serial.is_open: self._serial.close()
DisconnectClose ==
  /\ pc[Caller] = "d_join"
  /\ \E timed_out \in BOOLEAN :
       \A t \in {Reader(started), Watchdog(started)} \cap Threads :
          JoinReturns(t, timed_out)
  /\ is_open' = IF is_connected THEN Closed(is_open, serial) ELSE is_open
  /\ Goto(Caller, "d_state")
  /\ UNCHANGED <<port, serial, status, status_lock, write_lock, stop_event,
                 previous_state, started, readerVars, failed, callerVars, wire,
                 disc_events, env>>

\* with self._status_lock: self._status.state = DISCONNECTED; and return
DisconnectState ==
  /\ pc[Caller] = "d_state"
  /\ status_lock = NoThread
  /\ status' = MarkedDisconnected(status)
  /\ Goto(Caller, "idle")
  /\ in_row' = IF in_row < 2 THEN in_row + 1 ELSE in_row
  /\ UNCHANGED <<linkVars, status_lock, write_lock, stop_event, previous_state, started,
                 readerVars, failed, command, ret, snap, wire, disc_events, env>>

\* --------------------------------------------------------------------- Next
ReaderStep(t) ==
  \/ ReaderLoop(t)
  \/ ReaderRead(t)
  \/ JsonState(t)
  \/ JsonFields(t)
  \/ FireStatus(t)
  \/ ErrorSet(t)
  \/ ErrorFire(t)
  \/ StateSet(t)
  \/ CheckRead(t)
  \/ CheckCompare(t)

WatchdogStep(t) == WatchdogLoop(t) \/ WatchdogCheck(t)

SendStep(t) == SendWrite(t) \/ SendNewline(t)

HandleDisconnectStep(t) == HandleDisconnectState(t) \/ HandleDisconnectClose(t)

CallCommand ==
  \/ \E rpm \in {1000}, duration_sec \in {30} : CallStart(rpm, duration_sec)
  \/ \E c \in env.commands : CallSend(c)

Connect == ConnectOpen \/ ConnectFlush

Disconnect == DisconnectSet \/ DisconnectClose \/ DisconnectState

Next ==
  \/ \E t \in Readers : ReaderStep(t)
  \/ \E t \in Watchdogs : WatchdogStep(t)
  \/ \E t \in Senders : SendStep(t)
  \/ \E t \in Threads : HandleDisconnectStep(t)
  \/ CallCommand
  \/ Connect
  \/ Disconnect

Spec == Init /\ [][Next]_vars

\* The threads of the operating system take their turns: a background thread that
\* can take a step takes one. Nothing makes the caller call.
BackgroundStep(t) ==
  \/ t \in Readers /\ ReaderStep(t)
  \/ t \in Watchdogs /\ (WatchdogStep(t) \/ SendStep(t))
  \/ HandleDisconnectStep(t)

FairSpec == Spec /\ \A t \in Readers \cup Watchdogs : WF_vars(BackgroundStep(t))

\* A disconnect() that has begun goes on: its thread is scheduled like the others.
DisconnectReturns == DisconnectClose \/ DisconnectState

ScheduledSpec == FairSpec /\ WF_vars(DisconnectReturns)

ObserverSpec == ObserverInit /\ [][Next]_vars

ReconnectNext ==
  \/ \E t \in Readers : ReaderLoop(t) \/ ReaderRead(t)
  \/ \E t \in Watchdogs : WatchdogStep(t)
  \/ \E t \in Senders : SendStep(t)
  \/ \E t \in Threads : HandleDisconnectStep(t)
  \/ CallCommand
  \/ Connect
  \/ Disconnect

ReconnectSpec == ReconnectInit /\ [][ReconnectNext]_vars

ParserNext ==
  \/ \E t \in Readers : ReaderStep(t)
  \/ \E t \in Watchdogs : WatchdogStep(t)
  \/ \E t \in Senders : SendStep(t)
  \/ CallCommand
  \/ GetStatus
  \/ Connect

ParserSpec == ParserInit /\ [][ParserNext]_vars

\* The session of a silent device on a link that does not fail, every command
\* method called, before, during and after the connection.
CommandSpec == CommandInit /\ [][ReconnectNext]_vars

\* The healthy session with a caller that also assigns to the snapshots it holds.
SnapshotNext ==
  \/ \E t \in Readers : ReaderStep(t)
  \/ \E t \in Watchdogs : WatchdogStep(t)
  \/ \E t \in Senders : SendStep(t)
  \/ CallCommand
  \/ GetStatus
  \/ WriteSnapshot
  \/ Connect

SnapshotSpec == SnapshotInit /\ [][SnapshotNext]_vars


\* ================================================================== claims
SerialDisconnected == ErrorEvent("SERIAL_DISCONNECTED")

\* A reader that left its loop through _handle_disconnect.
ReaderFailed(t) == pc[t] = "done" /\ failed[t] # 0

\* A reader leaving _handle_disconnect.
ReaderHandled(t) == pc[t] = "hd_close" /\ pc'[t] = "done"

\* C1: when a reader whose read raised SerialException leaves _handle_disconnect,
\* it has fired exactly one callback since that read, on_error("SERIAL_DISCONNECTED"),
\* the status state is DISCONNECTED and is_connected() is false.
C1_ReadFailureHandled ==
  [][\A t \in Readers :
       ReaderHandled(t) =>
          /\ line_events'[t] = <<SerialDisconnected>>
          /\ status'.state = DISCONNECTED
          /\ ~is_connected']_vars

\* The link failed under a reader in mid-session: nobody called disconnect(), and
\* the reader's is the only handler that ran.
C1_Witness ==
  \E t \in Readers :
     /\ ReaderFailed(t)
     /\ ~stop_event
     /\ env.faults < MaxFault
     /\ disc_events[failed[t]] = 1

\* C2: once _handle_disconnect has run, every reader and watchdog ends.
C2_TasksTerminate ==
  (\E n \in Conns : disc_events[n] > 0)
     ~> (\A t \in Readers \cup Watchdogs : ~is_alive(t))

\* C3: at most one on_error("SERIAL_DISCONNECTED") for one connection.
C3_OneDisconnectEvent == \A n \in Conns : disc_events[n] <= 1

\* C4: at most one reader and at most one watchdog are alive.
C4_OneThreadPair ==
  /\ Cardinality({t \in Readers : is_alive(t)}) <= 1
  /\ Cardinality({t \in Watchdogs : is_alive(t)}) <= 1

\* A reader finishing the state comparison of a STATE: line.
StateLineCompared(t) ==
  /\ pc[t] = "compare"
  /\ pc'[t] = "r_loop"
  /\ ParseRule(line[t]) = "state"

\* A reader taking a line off the link.
TookLine(t, text) == pc[t] = "r_read" /\ pc'[t] # "r_read" /\ line'[t] = text

\* C5: for a STATE: line naming a state, on_state_change fires exactly when the
\* state it names differs from _previous_state, once, with (old, new), and
\* _previous_state becomes the named state; a STATE: line naming no state fires
\* nothing and leaves _previous_state alone.
C5_StateChangeEvents ==
  [][\A t \in Readers :
       /\ StateLineCompared(t) =>
            LET new == Rest(line[t])
                old == previous_state
            IN /\ new \in SystemState
               /\ previous_state' = new
               /\ line_events'[t] = IF new # old THEN <<StateChangeEvent(old, new)>> ELSE <<>>
       /\ \A text \in {Strip(l) : l \in AllLines} :
            (TookLine(t, text) /\ ParseRule(text) = "state" /\ Rest(text) \notin SystemState) =>
               /\ pc'[t] = "r_loop"
               /\ line_events'[t] = <<>>
               /\ previous_state' = previous_state
               /\ status' = status]_vars

\* The lines that open a JSON object and do not close it.
MalformedJson == {Strip(TruncatedPacket)}

\* C6: a line starting with "{" that json.loads rejects changes neither the status
\* nor _previous_state, fires no callback, and leaves the reader in its loop with
\* the link as it was.
C6_MalformedJsonIgnored ==
  [][\A t \in Readers : \A text \in MalformedJson :
       TookLine(t, text) =>
          /\ status' = status
          /\ previous_state' = previous_state
          /\ line_events'[t] = <<>>
          /\ pc'[t] = "r_loop"
          /\ is_open' = is_open
          /\ disc_events' = disc_events]_vars

\* A truncated packet was dropped after a complete one had been stored.
C6_Witness ==
  \E t \in Readers :
     /\ pc[t] = "r_loop"
     /\ line[t] \in MalformedJson
     /\ status.current_rpm = 850
     /\ status.state = RUNNING

\* C7: while is_connected() is false no text is put on the link, no send passes the
\* is_connected() check, a write that was already past it raises into
\* _handle_disconnect, and the send returns False.
C7_NoSendWhileDisconnected ==
  /\ [][~is_connected =>
          /\ wire'.data = <<>> \/ wire' = wire
          /\ \A t \in Senders :
               /\ pc'[t] = "s_write" => pc[t] = "s_write"
               /\ (pc[t] = "s_write" /\ pc'[t] # "s_write") => pc'[t] = "hd_state"
          /\ (Calling /\ command' # NoCommand /\ (command' # command \/ ret' # ret)) =>
               (ret' = "False" /\ pc'[Caller] = "idle")]_vars
  /\ [][(pc[Caller] = "hd_close" /\ pc'[Caller] = "idle") => ret' = "False"]_vars

\* disconnect() closed the link under a ping that had passed the check: the write
\* raised although the link itself never failed.
C7_Witness ==
  \E t \in Watchdogs :
     /\ pc[t] = "hd_state"
     /\ stop_event
     /\ ~is_connected
     /\ env.faults = MaxFault

\* disconnect() setting the state / closing the link.
DisconnectMarks == pc[Caller] = "d_state" /\ pc'[Caller] = "idle"
DisconnectCloses == pc[Caller] = "d_join" /\ pc'[Caller] = "d_state"

\* C8: every disconnect() ends with state DISCONNECTED and no open link, and one
\* made while no link is open closes nothing.
C8_DisconnectIdempotent ==
  /\ [][DisconnectMarks => (status'.state = DISCONNECTED /\ ~is_connected')]_vars
  /\ [][(DisconnectCloses /\ ~is_connected) => is_open' = is_open]_vars

\* Two disconnect() calls in a row after a session.
C8_Witness ==
  /\ Calling
  /\ in_row = 2
  /\ serial # 0
  /\ status.state = DISCONNECTED
  /\ ~is_connected

\* _handle_disconnect setting the state.
HandlerMarks == \E t \in Threads : pc[t] = "hd_state" /\ pc'[t] = "hd_close"

\* C9: after disconnect() or _handle_disconnect the status record is the initial
\* one, ArduinoStatus().
C9_StatusReset == [][(DisconnectMarks \/ HandlerMarks) => status' = ArduinoStatus]_vars

\* is_connected() before the connect() call in progress.
ConnectedBeforeCall == serial > 1 /\ is_open[serial - 1]

\* C10: a connect() that returns False leaves is_connected() as before the call,
\* no link open, no thread started, the stop event and the status unchanged.
C10_FailedConnectChangesNothing ==
  /\ [][(Calling /\ pc'[Caller] = "idle" /\ command' = NoCommand /\ ret' = "False"
           /\ (ret # "False" \/ command # NoCommand)) =>
          UNCHANGED <<serial, is_open, started, stop_event, status>>]_vars
  /\ [][(pc[Caller] = "c_flush" /\ pc'[Caller] = "idle" /\ ret' = "False") =>
          /\ ~is_open'[serial']
          /\ is_connected' = ConnectedBeforeCall
          /\ UNCHANGED <<started, stop_event, status>>]_vars

\* A reader applying a line's mutation to the status: the state of a JSON packet,
\* of an ERROR: line or of a STATE: line.
Mutates(t) == pc[t] \in {"json_state", "err_set", "state_set"} /\ pc'[t] # pc[t]

\* A reader that is through with the line in hand.
LineFinished(t) == pc[t] \notin {"r_loop", "r_read"} /\ pc'[t] = "r_loop"

\* C11: the on_state_change of a line's transition is fired before that line is
\* finished, so that no line's mutation is applied while an earlier transition is
\* still unreported: _previous_state equals the status state whenever a line is
\* finished and whenever the next mutation is applied.
C11_TransitionsDeliveredInLine ==
  [][\A t \in Readers :
       /\ LineFinished(t) => previous_state' = status'.state
       /\ Mutates(t) => previous_state = status.state]_vars

\* A status record that carries every assignment of a JSON packet.
AllApplied(s, data) ==
  /\ s.state = JsonStateOf(data)
  /\ \A i \in 1..Len(StatusFields) :
       LET f == StatusFields[i]
           v == DictGet(data, f.key, f.default)
       IN IF f.conv = "bool"
          THEN s[f.field] = BoolOf(v)
          ELSE ~IntRaises(v) /\ s[f.field] = IntOf(v)

\* A reader that has taken the status lock for the JSON packet in hand.
PacketBegun(t) ==
  /\ line[t] # <<>>
  /\ ParseRule(line[t]) = "json"
  /\ json_loads(line[t]).raised = None
  /\ pc[t] \notin {"r_read", "json_state"}

\* The caller taking a snapshot.
SnapshotTaken == snap'.taken /\ ~snap'.written /\ snap' # snap

\* C12: a get_status() snapshot shows a line whole or not at all: taken once the
\* reader has begun a JSON packet it carries every assignment of the packet (or,
\* not having the packet's state, none), and taken once an ERROR: line is applied
\* it carries both the ERROR state and the reason.
C12_SnapshotWholeLine ==
  [][SnapshotTaken =>
       \A t \in Readers :
          /\ PacketBegun(t) =>
               \/ AllApplied(snap'.value, json_loads(line[t]).data)
               \/ snap'.value.state # JsonStateOf(json_loads(line[t]).data)
          /\ (line[t] # <<>> /\ ParseRule(line[t]) = "error"
                /\ pc[t] \notin {"r_read", "err_set"}) =>
               (snap'.value.state = ERROR /\ snap'.value.error_reason = Rest(line[t]))]_vars

\* C13: commands never interleave on the link: at most one sender is inside the
\* write, it holds the write lock, and the text on the link is its command alone
\* until its newline ends the line.
C13_WritesNeverInterleave ==
  /\ Cardinality({t \in Senders : pc[t] = "s_newline"}) <= 1
  /\ \A t \in Senders : pc[t] = "s_newline" => write_lock = t
  /\ wire.data # <<>> =>
       /\ write_lock \in Senders
       /\ pc[write_lock] = "s_newline"
       /\ wire.data = <<CommandOf(write_lock)>>

\* The caller is in the middle of its line while the watchdog waits to write its
\* PING and a reader holds the status lock.
C13_Witness ==
  /\ write_lock = Caller
  /\ wire.data = <<Stop>>
  /\ status_lock \in Readers
  /\ \E w \in Watchdogs : pc[w] = "s_write"

\* disconnect() has returned and every background thread has ended.
Settled ==
  /\ Calling
  /\ in_row >= 1
  /\ \A t \in Readers \cup Watchdogs : ~is_alive(t)

\* disconnect() is in progress / a thread fires the callback of _handle_disconnect.
DisconnectRunning == pc[Caller] \in {"d_join", "d_state"}
HandlerFires == \E t \in Threads : pc[t] = "hd_close" /\ pc'[t] # pc[t]

\* C14: a _handle_disconnect that runs while disconnect() is in progress does not
\* bring the connection a second on_error("SERIAL_DISCONNECTED"), and when both
\* have run and everything has come to rest the state is DISCONNECTED and the
\* link is closed.
C14_DisconnectWithHandlerHarmless ==
  [][/\ (DisconnectRunning /\ HandlerFires) => \A n \in Conns : disc_events'[n] <= 1
     /\ (Settled /\ \E n \in Conns : disc_events[n] >= 1) =>
          (status.state = DISCONNECTED /\ ~is_connected)]_vars

\* A reader that has set DISCONNECTED in _handle_disconnect, or has left through it.
ReaderGaveUp(t) == pc[t] = "hd_close" \/ ReaderFailed(t)

\* C15: a reader whose read failed leaves _handle_disconnect by ending, takes no
\* further step, and from the handler's assignment on the status record stays as
\* it is, with state DISCONNECTED.
C15_NoMutationAfterReadFailure ==
  [][\A t \in Readers :
       /\ (pc[t] = "hd_close" /\ pc'[t] # pc[t]) => pc'[t] = "done"
       /\ ReaderFailed(t) => pc'[t] = "done"
       /\ ReaderGaveUp(t) => (status.state = DISCONNECTED /\ status' = status)]_vars

\* The link failed under the reader after a packet was stored, and disconnect()
\* was called as well: the record is the packet's, marked DISCONNECTED.
C15_Witness ==
  \E t \in Readers :
     /\ ReaderFailed(t)
     /\ env.faults < MaxFault
     /\ disc_events[failed[t]] = 1
     /\ in_row >= 1
     /\ status.state = DISCONNECTED
     /\ status.current_rpm = 850

\* C16: no line of the device makes the status state DISCONNECTED while the link
\* is open: a reader's assignment from a line never takes the state from another
\* value to DISCONNECTED.
C16_DisconnectedHostAsserted ==
  [][\A t \in Readers :
       (Mutates(t) /\ is_connected /\ status.state # DISCONNECTED) =>
          status'.state # DISCONNECTED]_vars

\* C17: an observer that raises changes nothing for the thread that called it: a
\* reader goes on to the state check of the line and remembers the state it has
\* reported, a sender leaves _handle_disconnect with False and a watchdog goes
\* round its loop again.
C17_ObserverFailureContained ==
  [][/\ \A t \in Readers :
          /\ (pc[t] \in {"fire_status", "err_fire"} /\ pc'[t] # pc[t]) => pc'[t] = "check"
          /\ (pc[t] = "compare" /\ pc'[t] # pc[t] /\ current[t] # previous_state) =>
               previous_state' = current[t]
     /\ \A t \in Watchdogs : (pc[t] = "hd_close" /\ pc'[t] # pc[t]) => pc'[t] = "w_loop"
     /\ (pc[Caller] = "hd_close" /\ pc'[Caller] # "hd_close") => ret' \in {"True", "False"}]_vars

\* Where a reader is while _parse_line works on a line.
ParsePcs ==
  {"json_state", "json_fields", "fire_status", "err_set", "err_fire", "state_set",
   "check", "compare"}

\* A reader taking a non-blank line, or taking a step of _parse_line.
ParserStep(t) ==
  /\ pc'[t] # pc[t]
  /\ pc[t] \in ParsePcs \/ (pc[t] = "r_read" /\ line'[t] # <<>>)

\* C18: no step of the reader on a line of the device touches the connection: the
\* link stays as it is, the stop event is not set, the reader stays in its loop,
\* the watchdogs are where they were and no write is disturbed.
C18_LinesKeepConnection ==
  [][\A t \in Readers :
       ParserStep(t) =>
          /\ UNCHANGED <<serial, is_open, stop_event, write_lock, wire>>
          /\ pc'[t] \in ParsePcs \cup {"r_loop"}
          /\ \A w \in Watchdogs : pc'[w] = pc[w]]_vars

\* After ERROR:LID_OPEN the link is open and the caller's CLEAR_ERROR is on it.
C18_Witness ==
  /\ status.state = ERROR
  /\ status.error_reason = "LID_OPEN"
  /\ is_connected
  /\ ~stop_event
  /\ wire = [link |-> serial, data |-> <<ClearError>>]
  /\ \E t \in Readers : is_alive(t)
  /\ \E w \in Watchdogs : is_alive(w)

\* A reader leaving the with block of _parse_status_json for the packet text.
PacketStored(t, packet) ==
  pc[t] = "json_fields" /\ pc'[t] # pc[t] /\ line[t] = Strip(packet)

\* The record a packet leaves, error_reason being no key of a packet.
StatusOf(st, rpm, target, pwm_, lid, lvl, run, ms) ==
  [state |-> st, current_rpm |-> rpm, target_rpm |-> target, pwm |-> pwm_,
   lid_closed |-> lid, level |-> lvl, running |-> run, remaining_ms |-> ms,
   error_reason |-> status.error_reason]

\* C19: a JSON packet sets every field from its key, with the default for a key
\* it lacks: the RUNNING/850/1000/12000 packet gives exactly those values and
\* remaining_sec 12, the empty object gives IDLE with zeros and False, and an
\* unknown state name gives IDLE beside the values of the other keys.
C19_PacketSetsEveryField ==
  [][\A t \in Readers :
       /\ PacketStored(t, StatusPacket) =>
            /\ status' = StatusOf(RUNNING, 850, 1000, 0, TRUE, TRUE, TRUE, 12000)
            /\ remaining_sec(status') = 12
       /\ PacketStored(t, EmptyPacket) =>
            status' = StatusOf(IDLE, 0, 0, 0, FALSE, FALSE, FALSE, 0)
       /\ PacketStored(t, UnknownStatePacket) =>
            status' = StatusOf(IDLE, 0, 0, 128, FALSE, FALSE, FALSE, 0)]_vars

\* The RUNNING packet has been stored over the record an ERROR: line and the
\* empty object left.
C19_Witness ==
  \E t \in Readers :
     /\ line[t] = Strip(StatusPacket)
     /\ pc[t] = "r_loop"
     /\ status = [state |-> RUNNING, current_rpm |-> 850, target_rpm |-> 1000, pwm |-> 0,
                  lid_closed |-> TRUE, level |-> TRUE, running |-> TRUE,
                  remaining_ms |-> 12000, error_reason |-> "LID_OPEN"]
     /\ remaining_sec(status) = 12

\* A reader working on the line ERROR:LID_OPEN.
OnErrorLine(t, at) == pc[t] = at /\ pc'[t] # pc[t] /\ line[t] = Strip(ErrorLine)

\* C20: ERROR:LID_OPEN sets state ERROR and error_reason "LID_OPEN" in one step
\* under the status lock and leaves every other field; the reader then fires
\* on_error("LID_OPEN"), the line's first callback.
C20_ErrorLine ==
  [][\A t \in Readers :
       /\ OnErrorLine(t, "err_set") =>
            /\ status' = [status EXCEPT !.state = ERROR, !.error_reason = "LID_OPEN"]
            /\ status_lock = NoThread /\ status_lock' = NoThread
            /\ pc'[t] = "err_fire"
       /\ OnErrorLine(t, "err_fire") =>
            /\ line_events'[t] = <<ErrorEvent("LID_OPEN")>>
            /\ status.error_reason = "LID_OPEN"
            /\ status' = status]_vars

\* The error event has been fired for a device that was running at 850 rpm.
C20_Witness ==
  \E t \in Readers :
     /\ pc[t] = "check"
     /\ line[t] = Strip(ErrorLine)
     /\ line_events[t] = <<ErrorEvent("LID_OPEN")>>
     /\ status.state = ERROR
     /\ status.error_reason = "LID_OPEN"
     /\ status.current_rpm = 850
     /\ status.running

\* The STATE: lines of the device, stripped: those naming no SystemState member.
UnknownStateLines ==
  {text \in {Strip(l) : l \in AllLines} :
     ParseRule(text) = "state" /\ Rest(text) \notin SystemState}

\* A reader assigning the state a STATE: line names.
StateAssigned(t) == pc[t] = "state_set" /\ pc'[t] # pc[t]

\* C21: a STATE: line naming no SystemState member changes neither the status nor
\* _previous_state, fires no callback and leaves the reader in its loop; a STATE:
\* line naming a member assigns the state field that member and no other field.
C21_StateLineFrame ==
  [][\A t \in Readers :
       /\ \A text \in UnknownStateLines :
            TookLine(t, text) =>
               /\ status' = status
               /\ previous_state' = previous_state
               /\ line_events'[t] = <<>>
               /\ pc'[t] = "r_loop"
       /\ StateAssigned(t) =>
            /\ Rest(line[t]) \in SystemState
            /\ status' = [status EXCEPT !.state = Rest(line[t])]
            /\ previous_state' = previous_state]_vars

\* STATE:BOOTING was dropped after the RUNNING packet had been stored and reported.
C21_Witness ==
  \E t \in Readers :
     /\ pc[t] = "r_loop"
     /\ line[t] = Strip(StateBooting)
     /\ line_events[t] = <<>>
     /\ status.state = RUNNING
     /\ status.current_rpm = 850
     /\ previous_state = RUNNING

\* A reader changing the status record / the caller assigning to its snapshot.
ReaderMutates == status' # status /\ \E t \in Readers : pc'[t] # pc[t]
SnapshotWritten == snap.taken /\ ~snap.written /\ snap'.written

\* C22: get_status() returns a new object holding the record's fields: what the
\* caller reads in a snapshot it holds is not changed by a reader's later
\* mutation, an assignment to the snapshot leaves the record as it is, and a
\* snapshot taken later holds the record's fields, not the assigned one.
C22_SnapshotIsCopy ==
  [][/\ (snap.taken /\ ReaderMutates) => Seen(snap', status') = Seen(snap, status)
     /\ SnapshotWritten =>
          /\ status' = status
          /\ Seen(snap', status').current_rpm = WrittenRpm
     /\ SnapshotTaken =>
          /\ Seen(snap', status') = status
          /\ status' = status]_vars

\* The caller holds a snapshot of the RUNNING packet and has assigned to it; the
\* reader has since applied ERROR:LID_OPEN to the record.
C22_Witness ==
  /\ snap.taken
  /\ snap.written
  /\ Seen(snap, status).state = RUNNING
  /\ Seen(snap, status).current_rpm = WrittenRpm
  /\ Seen(snap, status).error_reason = ""
  /\ status.state = ERROR
  /\ status.current_rpm = 850
  /\ status.error_reason = "LID_OPEN"

\* A background thread at the head of its loop, taking its turn.
AtLoopHead(t) == pc[t] \in {"r_loop", "w_loop"} /\ pc'[t] # pc[t]

\* C23: once disconnect() has set the stop event, every reader and watchdog ends:
\* each one that comes to the head of its loop with the event set leaves the
\* loop there, no thread is started meanwhile, and disconnect() returns.
C23_CooperativeCancellation ==
  /\ [][\A t \in Readers \cup Watchdogs :
          (AtLoopHead(t) /\ stop_event) => pc'[t] = "done"]_vars
  /\ stop_event ~> (\A t \in Readers \cup Watchdogs : ~is_alive(t))
  /\ DisconnectRunning ~> Calling

\* disconnect() has returned after a session: both threads saw the stop event at
\* the head of their loops and ended, no link having failed.
C23_Witness ==
  /\ Calling
  /\ in_row = 1
  /\ started = 1
  /\ stop_event
  /\ env.faults = MaxFault
  /\ pc[Reader(1)] = "done"
  /\ pc[Watchdog(1)] = "done"
  /\ \A t \in Threads : failed[t] = 0
  /\ \A n \in Conns : disc_events[n] = 0

\* A watchdog after its sleep, deciding about the PING / putting text on the link.
WatchdogDecides(t) == pc[t] = "w_check" /\ pc'[t] # pc[t]
WatchdogWrites(t) == pc[t] = "s_write" /\ pc'[t] = "s_newline"

\* C24: a watchdog pings only while connected and not stopped: after its sleep it
\* goes on to the write exactly when is_connected() holds and the stop event is
\* not set, else it writes nothing and returns to the head of its loop; the text
\* it puts on the link is PING, on an open link; on a closed link its write puts
\* nothing there; and after one PING line it is at the head of its loop again.
C24_WatchdogPings ==
  [][\A t \in Watchdogs :
       /\ WatchdogDecides(t) =>
            /\ pc'[t] = (IF is_connected /\ ~stop_event THEN "s_write" ELSE "w_loop")
            /\ wire' = wire
       /\ WatchdogWrites(t) =>
            /\ is_connected
            /\ wire' = [link |-> serial, data |-> <<Ping>>]
       /\ (pc[t] = "s_write" /\ pc'[t] # pc[t] /\ ~is_connected) =>
            (wire' = wire /\ pc'[t] = "hd_state")
       /\ (pc[t] = "s_newline" /\ pc'[t] # pc[t]) => pc'[t] = "w_loop"
       /\ pc'[t] = "s_write" => pc[t] \in {"s_write", "w_check"}]_vars

\* A watchdog woke with the stop event set on an open link and is back at the head
\* of its loop, nothing on the link.
C24_Witness ==
  \E t \in Watchdogs :
     /\ pc[t] = "w_loop"
     /\ stop_event
     /\ is_connected
     /\ pc[Caller] = "d_join"
     /\ wire = NoWire
     /\ env.faults = MaxFault

\* The caller's command method returning from the write, and the text its call
\* has put on the link by then.
CommandReturns == pc[Caller] = "s_newline" /\ pc'[Caller] = "idle"
LineSent == Encoded(Written(wire, wire.link, Newline).data)

\* The lines the command methods write: start(1000, 30) and the five others.
StartLine == <<"START:", "1", "0", "0", "0", ":", "3", "0", "0", "0", "0", "\n">>
PlainLines ==
  {<<"STOP", "\n">>, <<"EMERGENCY_STOP", "\n">>, <<"CLEAR_ERROR", "\n">>,
   <<"STATUS", "\n">>, <<"PING", "\n">>}

\* C25: a command method called while connected puts one line on the link and
\* returns True, without any line of the device: start(1000, 30) puts
\* START:1000:30000 and a newline there, the other five their verb and a
\* newline, the newline being the last and only one of the text; the call goes
\* from the is_connected() check to the write and from the write to its return.
C25_CommandLines ==
  [][/\ CommandReturns =>
          /\ ret' = "True"
          /\ wire.link = serial /\ is_connected
          /\ IF command.verb = "START"
             THEN LineSent = StartLine
             ELSE LineSent = <<command.verb, "\n">> /\ LineSent \in PlainLines
          /\ Cardinality({i \in 1..Len(LineSent) : LineSent[i] = "\n"}) = 1
          /\ \A t \in Readers : line[t] = <<>>
     /\ (Calling /\ is_connected /\ command' # NoCommand /\ pc'[Caller] # "idle") =>
          pc'[Caller] = "s_write"
     /\ (pc[Caller] = "s_write" /\ pc'[Caller] # "s_write" /\ is_connected) =>
          pc'[Caller] = "s_newline"]_vars

\* start(1000, 30) has returned True on a link whose device has said nothing.
C25_Witness ==
  /\ Calling
  /\ ret = "True"
  /\ command.verb = "START"
  /\ command.args = <<1000, 30000>>
  /\ is_connected
  /\ wire = NoWire
  /\ \A t \in Readers : line[t] = <<>>

\* A sender's write raising SerialException / the sender in _handle_disconnect.
WriteFails(t) == pc[t] = "s_write" /\ pc'[t] \notin {"s_write", "s_newline"}
SenderMarks(t) == pc[t] = "hd_state" /\ pc'[t] # pc[t]
SenderCloses(t) == pc[t] = "hd_close" /\ pc'[t] # pc[t]

\* C26: a write that raises SerialException takes the sender into
\* _handle_disconnect and nowhere else; the handler sets the status state
\* DISCONNECTED, then closes the link and fires on_error("SERIAL_DISCONNECTED")
\* for the link that failed; and the call returns False: the caller has False as
\* its result, the watchdog is back at the head of its loop.
C26_WriteFailureHandled ==
  [][\A t \in Senders :
       /\ WriteFails(t) =>
            /\ pc'[t] = "hd_state"
            /\ failed'[t] = serial
            /\ wire' = wire
       /\ SenderMarks(t) =>
            /\ status' = [status EXCEPT !.state = DISCONNECTED]
            /\ pc'[t] = "hd_close"
       /\ SenderCloses(t) =>
            /\ ~is_connected'
            /\ disc_events[failed[t]] < 2 =>
                 disc_events'[failed[t]] = disc_events[failed[t]] + 1
            /\ disc_events'[failed[t]] >= 1
            /\ IF t = Caller
               THEN pc'[t] = "idle" /\ ret' = "False"
               ELSE pc'[t] = "w_loop"]_vars

\* The link failed under the caller's STOP: the handler has set DISCONNECTED and
\* is about to close the link, nothing of the command being on it.
C26_Witness ==
  /\ pc[Caller] = "hd_close"
  /\ failed[Caller] = serial
  /\ command = Stop
  /\ env.faults < MaxFault
  /\ status.state = DISCONNECTED
  /\ is_connected
  /\ wire = NoWire
  /\ \A n \in Conns : disc_events[n] = 0

\* C27: STATUS:COMPLETE fires on_complete(), once, and no other callback; the
\* status record and _previous_state stay as they are, and the reader is back at
\* the head of its loop.
C27_CompleteLine ==
  [][\A t \in Readers :
       TookLine(t, Strip(CompleteLine)) =>
          /\ line_events'[t] = <<CompleteEvent>>
          /\ status' = status
          /\ previous_state' = previous_state
          /\ pc'[t] = "r_loop"
          /\ UNCHANGED <<status_lock, disc_events, is_open>>]_vars

\* STATUS:COMPLETE has been reported while the record still says RUNNING at 850.
C27_Witness ==
  \E t \in Readers :
     /\ pc[t] = "r_loop"
     /\ line[t] = Strip(CompleteLine)
     /\ line_events[t] = <<CompleteEvent>>
     /\ status.state = RUNNING
     /\ status.current_rpm = 850
     /\ previous_state = RUNNING

\* What readline() hands over that tells nothing about the run: WARNING:, ACK:,
\* PONG, a boot banner, an unknown line, a blank line, and b"" after a timeout.
Informational ==
  {Strip(l) : l \in {WarningLine, AckLine, PongLine, BootLine, OtherLine, BlankLine}}
    \cup {<<>>}

\* A readline() that returned, the reader having the text.
ReadReturned(t, text) == TookLine(t, text) /\ failed'[t] = failed[t]

\* C28: a WARNING:, ACK:, PONG, boot banner or unknown line, a blank line and a
\* read timeout change neither the status record nor _previous_state, fire no
\* callback, touch neither the link nor the stop event, and leave the reader at
\* the head of its loop.
C28_InformationalIgnored ==
  [][\A t \in Readers : \A text \in Informational :
       ReadReturned(t, text) =>
          /\ status' = status
          /\ previous_state' = previous_state
          /\ line_events'[t] = <<>>
          /\ pc'[t] = "r_loop"
          /\ UNCHANGED <<status_lock, disc_events, is_open, stop_event>>]_vars

\* WARNING:IMBALANCE has been dropped, the record still RUNNING at 850.
C28_Witness ==
  \E t \in Readers :
     /\ pc[t] = "r_loop"
     /\ line[t] = Strip(WarningLine)
     /\ line_events[t] = <<>>
     /\ status.state = RUNNING
     /\ status.current_rpm = 850
     /\ previous_state = RUNNING
     /\ is_connected

\* The ports of the machine, where comports() has one answer.
Enumerated == CHOOSE ports \in env.ports : TRUE

\* connect() looking for a port: it goes on to open one, or returns False.
PortFound == Calling /\ port = None /\ pc'[Caller] = "c_flush"
PortNotFound ==
  /\ Calling /\ port = None
  /\ pc'[Caller] = "idle" /\ command' = NoCommand /\ ret' = "False" /\ ret # "False"

\* C29: _auto_detect_port() returns the device of the first port whose description,
\* manufacturer or hwid contains a keyword, whatever the case of the letters;
\* with ports and none matching, the first port's; with no port, None (and
\* connect() returns False): COM3 of Bluetooth and Arduino, COM4 of Bluetooth,
\* CH340 clone and Arduino, COM7 of FTDI (by manufacturer) and Arduino, COM8 of
\* Bluetooth and a "USB Serial" adapter (by hwid), COM1 of Bluetooth alone.
C29_PortDiscovery ==
  [][/\ PortFound =>
          /\ Enumerated # <<>>
          /\ port' = (CASE Enumerated = <<BluetoothPort>> -> "COM1"
                        [] Enumerated = <<BluetoothPort, ArduinoPort>> -> "COM3"
                        [] Enumerated = <<BluetoothPort, ClonePort, ArduinoPort>> -> "COM4"
                        [] Enumerated = <<FtdiPort, ArduinoPort>> -> "COM7"
                        [] Enumerated = <<BluetoothPort, AdapterPort>> -> "COM8")
     /\ PortNotFound => (Enumerated = <<>> /\ port' = None /\ serial' = 0)]_vars

\* The CH340 clone was taken, the second of three ports and the first that matches.
C29_Witness ==
  /\ port = "COM4"
  /\ Enumerated = <<BluetoothPort, ClonePort, ArduinoPort>>
  /\ is_connected
  /\ started = 1

\* C30: error_reason is empty in every state of the record but ERROR: a STATE:
\* line, a JSON packet or a disconnect that takes the state out of ERROR leaves
\* no reason behind.
C30_ReasonOnlyInError == status.state # ERROR => status.error_reason = ""

\* The state check that follows a JSON, ERROR: or STATE: line, finishing.
StateCheckEnds ==
  \E t \in Readers :
     /\ pc[t] = "compare"
     /\ pc'[t] = "r_loop"
     /\ ParseRule(line[t]) \in {"json", "error", "state"}

\* The device's own word for the state in a line, a blank where it has none.
NamedState(text) ==
  IF text = <<>> THEN ""
  ELSE CASE ParseRule(text) = "state" -> Rest(text)
         [] ParseRule(text) = "json" /\ json_loads(text).raised = None ->
              JsonStateOf(json_loads(text).data)
         [] ParseRule(text) = "error" -> ERROR
         [] OTHER -> ""

\* C31: _previous_state is assigned only at the end of the state check that
\* follows a JSON, ERROR: or STATE: line, so that connect(), disconnect() and
\* _handle_disconnect leave it as it is; and DISCONNECTED set by the host is
\* reported by no on_state_change: a reader fires on_state_change(old, new) only
\* with the state its line names as new.
C31_PreviousStateOnlyByCheck ==
  [][/\ previous_state' # previous_state => StateCheckEnds
     /\ \A t \in Readers :
          (pc[t] = "compare" /\ pc'[t] # pc[t] /\ line_events'[t] # line_events[t]) =>
             /\ line_events'[t][Len(line_events'[t])].new = NamedState(line[t])
             /\ previous_state' = NamedState(line[t])]_vars

\* A reader working on a JSON object with a value int() does not take.
Unconvertible(t) ==
  /\ line[t] # <<>>
  /\ ParseRule(line[t]) = "json"
  /\ json_loads(line[t]).raised = None
  /\ AssignFields(status, json_loads(line[t]).data, 1).raised # None
  /\ pc[t] \in {"json_state", "json_fields"}
  /\ pc'[t] # pc[t]

\* C32: a JSON object with a value that cannot be converted changes no field of
\* the status record, and when the reader is through with the line
\* _previous_state equals the stored state.
C32_PacketAllOrNothing ==
  [][\A t \in Readers :
       Unconvertible(t) =>
          /\ status' = status
          /\ pc'[t] = "r_loop" => previous_state' = status'.state]_vars

\* disconnect() has returned and nothing has been called since.
Disconnected == Calling /\ in_row >= 1

\* A reader or a watchdog taking a step / a callback being fired.
BackgroundMoves == \E t \in Readers \cup Watchdogs : pc'[t] # pc[t]
Emitted ==
  \/ \E t \in Readers : Len(line_events'[t]) > Len(line_events[t])
  \/ disc_events' # disc_events

\* C33: from the return of disconnect() to the next call the status state is
\* DISCONNECTED and the link closed, and no step of a reader or a watchdog
\* changes the status record, puts text on the link or fires a callback.
C33_QuietAfterDisconnect ==
  [][Disconnected =>
       /\ status.state = DISCONNECTED
       /\ ~is_connected
       /\ BackgroundMoves => (status' = status /\ wire' = wire /\ ~Emitted)]_vars

\* Where a thread is about to call _fire_callback.
FiringPcs == {"fire_status", "err_fire", "compare", "hd_close"}

\* The sentence as it stands: the two locks are never held at one time, and no
\* callback is fired while either is held by anybody.
C34_LocksNeverTogether ==
  /\ status_lock = NoThread \/ write_lock = NoThread
  /\ \A t \in Threads :
       pc[t] \in FiringPcs => (status_lock = NoThread /\ write_lock = NoThread)

\* C34: no thread holds both locks, a thread about to fire a callback holds
\* neither, and a thread that holds a lock is at a point where it needs nothing
\* else to release it: the status lock's holder is assigning the fields of a
\* packet, the write lock's holder is finishing its line. (Two threads may hold
\* one lock each, and a callback may be fired while another thread writes.)
C34_NoThreadHoldsBothLocks ==
  /\ \A t \in Threads :
       /\ ~(status_lock = t /\ write_lock = t)
       /\ pc[t] \in FiringPcs => (status_lock # t /\ write_lock # t)
  /\ status_lock # NoThread => (status_lock \in Readers /\ pc[status_lock] = "json_fields")
  /\ write_lock # NoThread => (write_lock \in Senders /\ pc[write_lock] = "s_newline")

\* A reader is about to fire on_status_update while the watchdog, holding the
\* write lock, is in the middle of its PING.
C34_Witness ==
  \E t \in Readers, w \in Watchdogs :
     /\ pc[t] = "fire_status"
     /\ status_lock = NoThread
     /\ write_lock = w
     /\ wire.data = <<Ping>>

\* A reader firing a callback at one place of _parse_line / at the end of
\* _check_state_change.
FiresAt(t, at) == pc[t] = at /\ pc'[t] # pc[t]
ReportsChange(t) == FiresAt(t, "compare") /\ line_events'[t] # line_events[t]

\* A snapshot that holds what a JSON packet assigned: its seven fields, and its
\* state unless the host has set DISCONNECTED since.
HoldsPacket(s, data) ==
  /\ s.state \in {JsonStateOf(data), DISCONNECTED}
  /\ \A i \in 1..Len(StatusFields) :
       LET f == StatusFields[i]
           v == DictGet(data, f.key, f.default)
       IN s[f.field] = (IF f.conv = "bool" THEN BoolOf(v) ELSE IntOf(v))

\* C35: the callbacks of one line come in one order. For ERROR:<reason>,
\* on_error(reason) is the line's first callback and on_state_change, when it is
\* fired, the second and last. For a JSON packet, on_status_update is the first,
\* with a snapshot that holds the packet's fields, and on_state_change, when it is
\* fired, the second and last.
C35_EventOrder ==
  [][\A t \in Readers :
       /\ FiresAt(t, "err_fire") =>
            (line_events[t] = <<>> /\ line_events'[t] = <<ErrorEvent(Rest(line[t]))>>)
       /\ FiresAt(t, "fire_status") =>
            /\ line_events[t] = <<>>
            /\ Len(line_events'[t]) = 1
            /\ line_events'[t][1].kind = "on_status_update"
            /\ HoldsPacket(line_events'[t][1].status, json_loads(line[t]).data)
       /\ (ReportsChange(t) /\ ParseRule(line[t]) = "error") =>
            /\ Len(line_events'[t]) = 2
            /\ line_events'[t][1] = ErrorEvent(Rest(line[t]))
            /\ line_events'[t][2].kind = "on_state_change"
       /\ (ReportsChange(t) /\ ParseRule(line[t]) = "json") =>
            /\ Len(line_events'[t]) = 2
            /\ line_events'[t][1].kind = "on_status_update"
            /\ HoldsPacket(line_events'[t][1].status, json_loads(line[t]).data)
            /\ line_events'[t][2].kind = "on_state_change"]_vars

\* The RUNNING packet has been reported after ERROR:LID_OPEN: first the snapshot
\* at 850 rpm, then the change from ERROR to RUNNING.
C35_Witness ==
  \E t \in Readers :
     /\ pc[t] = "r_loop"
     /\ line[t] = Strip(StatusPacket)
     /\ Len(line_events[t]) = 2
     /\ line_events[t][1].kind = "on_status_update"
     /\ line_events[t][1].status.state = RUNNING
     /\ line_events[t][1].status.current_rpm = 850
     /\ line_events[t][2] = StateChangeEvent(ERROR, RUNNING)

====
